---- MODULE Spec2Model ----
(***************************************************************************)
(* GitHuntr (githuntr.py): one scan run of GitHuntr.scan_repository, with  *)
(* the version-control provider (clone, checkout, os.walk, iter_commits,   *)
(* tree traversal, blob reads) as the environment.                         *)
(*                                                                         *)
(* Text is a sequence of code points, file content a sequence of bytes,    *)
(* both written as integers ("." is 46, "/" is 47, ...).                   *)
(***************************************************************************)
EXTENDS Integers, Sequences, FiniteSets, Bags, TLC

\* ------------------------------------------------------------------ bounds
MaxBranches == 2
MaxCommits == 2
MaxCommitsArg == 1

\* ------------------------------------------------------- generic helpers
\* Python's `sub in s` on strings
Contains(s, sub) ==
    \E k \in 0..(Len(s) - Len(sub)) : SubSeq(s, k + 1, k + Len(sub)) = sub

Count(x, s) == Cardinality({k \in 1..Len(s) : s[k] = x})

\* d[k] = v on a dict
DictSet(d, k, v) == [x \in (DOMAIN d) \cup {k} |-> IF x = k THEN v ELSE d[x]]

EmptyDict == [x \in {} |-> <<>>]

RECURSIVE SumOver(_, _)
SumOver(f, S) ==
    IF S = {} THEN 0
    ELSE LET x == CHOOSE y \in S : TRUE IN f[x] + SumOver(f, S \ {x})

\* ------------------------------------------------------ EntropyCalculator
\* BASE64_CHARS: A-Z a-z 0-9 + / =
BASE64_CHARS == (65..90) \cup (97..122) \cup (48..57) \cup {43, 47, 61}

\* math.log2 in fixed point: Log2Micro[n] = round(log2(n) * 10^6)
Log2Micro ==
    << 0, 1000000, 1584963, 2000000, 2321928, 2584963, 2807355, 3000000,
       3169925, 3321928, 3459432, 3584963, 3700440, 3807355, 3906891,
       4000000, 4087463, 4169925, 4247928, 4321928, 4392317, 4459432,
       4523562, 4584963, 4643856 >>

\* the threshold 4.3 in the same fixed point
EntropyThresholdMicro == 4300000

\* strings of at most this length are never scored
MinSecretLen == 15

\* Shannon entropy in micro-bits:
\*   -sum(c/L * log2(c/L)) = (L*log2(L) - sum(c*log2(c))) / L
calculate_entropy(text) ==
    IF text = <<>> THEN 0
    ELSE LET length == Len(text)
             chars == {text[k] : k \in 1..length}
             freq == [ch \in chars |-> Count(ch, text)]
             weighted == [ch \in chars |-> freq[ch] * Log2Micro[freq[ch]]]
         IN (length * Log2Micro[length] - SumOver(weighted, chars)) \div length

\* \s of a str pattern, and what str.strip() removes
Whitespace == {9, 10, 11, 12, 13, 28, 29, 30, 31, 32, 133, 160}

\* the class [\s:=]
Separators == Whitespace \cup {58, 61}

\* re.split(r'[\s:=]+', content): a run of separators ends the current piece
RECURSIVE SplitFrom(_, _, _, _)
SplitFrom(s, k, cur, acc) ==
    IF k > Len(s) THEN Append(acc, cur)
    ELSE IF s[k] \in Separators
         THEN IF k > 1 /\ s[k - 1] \in Separators
              THEN SplitFrom(s, k + 1, cur, acc)
              ELSE SplitFrom(s, k + 1, <<>>, Append(acc, cur))
         ELSE SplitFrom(s, k + 1, Append(cur, s[k]), acc)

re_split(content) == SplitFrom(content, 1, <<>>, <<>>)

RECURSIVE strip(_)
strip(word) ==
    IF word = <<>> THEN word
    ELSE IF Head(word) \in Whitespace THEN strip(Tail(word))
    ELSE IF word[Len(word)] \in Whitespace
         THEN strip(SubSeq(word, 1, Len(word) - 1))
    ELSE word

\* the three tests of scan_for_secrets on one word
IsSecret(word) ==
    /\ Len(word) > MinSecretLen
    /\ \A k \in 1..Len(word) : word[k] \in BASE64_CHARS
    /\ calculate_entropy(word) > EntropyThresholdMicro

RECURSIVE SecretsFrom(_, _, _)
SecretsFrom(words, k, secrets) ==
    IF k > Len(words) THEN secrets
    ELSE LET word == strip(words[k])
         IN SecretsFrom(words, k + 1,
                        IF IsSecret(word) THEN Append(secrets, word) ELSE secrets)

RECURSIVE DedupFrom(_, _, _)
DedupFrom(s, k, acc) ==
    IF k > Len(s) THEN acc
    ELSE DedupFrom(s, k + 1, IF Count(s[k], acc) > 0 THEN acc ELSE Append(acc, s[k]))

\* variant: the candidates collected as a set
scan_for_secrets_dedup(content) ==
    DedupFrom(SecretsFrom(re_split(content), 1, <<>>), 1, <<>>)

scan_for_secrets(content) == SecretsFrom(re_split(content), 1, <<>>)

\* ------------------------------------------------------------ re (subset)
\* Patterns are literal strings; a pattern with an unbalanced parenthesis
\* is the invalid one (re.error at re.compile).
re_compile_fails(p) == Count(40, p) # Count(41, p)

\* re.search(pattern, s) for a literal pattern
re_search(p, s) == Contains(s, p)

\* re.findall(pattern, s): the non-overlapping occurrences, left to right
RECURSIVE FindAllFrom(_, _, _, _)
FindAllFrom(p, s, k, acc) ==
    IF k + Len(p) - 1 > Len(s) THEN acc
    ELSE IF SubSeq(s, k, k + Len(p) - 1) = p
         THEN FindAllFrom(p, s, k + Len(p), Append(acc, p))
         ELSE FindAllFrom(p, s, k + 1, acc)

re_findall(p, s) == FindAllFrom(p, s, 1, <<>>)

\* ------------------------------------------------------- bytes and UTF-8
IsCont(b) == b >= 128 /\ b <= 191

\* bytes.decode('utf-8') / open(..., encoding='utf-8').read():
\* [error |-> TRUE] is UnicodeDecodeError
RECURSIVE DecodeFrom(_, _, _)
DecodeFrom(b, k, acc) ==
    IF k > Len(b) THEN [error |-> FALSE, text |-> acc]
    ELSE IF b[k] < 128 THEN DecodeFrom(b, k + 1, Append(acc, b[k]))
    ELSE IF /\ b[k] >= 194 /\ b[k] <= 223
            /\ k + 1 <= Len(b) /\ IsCont(b[k + 1])
         THEN DecodeFrom(b, k + 2,
                         Append(acc, (b[k] - 192) * 64 + (b[k + 1] - 128)))
    ELSE IF /\ b[k] >= 224 /\ b[k] <= 239
            /\ k + 2 <= Len(b) /\ IsCont(b[k + 1]) /\ IsCont(b[k + 2])
            /\ (b[k] = 224 => b[k + 1] >= 160)
            /\ (b[k] = 237 => b[k + 1] <= 159)
         THEN DecodeFrom(b, k + 3,
                         Append(acc, (b[k] - 224) * 4096 + (b[k + 1] - 128) * 64
                                     + (b[k + 2] - 128)))
    ELSE IF /\ b[k] >= 240 /\ b[k] <= 244
            /\ k + 3 <= Len(b)
            /\ IsCont(b[k + 1]) /\ IsCont(b[k + 2]) /\ IsCont(b[k + 3])
            /\ (b[k] = 240 => b[k + 1] >= 144)
            /\ (b[k] = 244 => b[k + 1] <= 143)
         THEN DecodeFrom(b, k + 4,
                         Append(acc, (b[k] - 240) * 262144 + (b[k + 1] - 128) * 4096
                                     + (b[k + 2] - 128) * 64 + (b[k + 3] - 128)))
    ELSE [error |-> TRUE, text |-> <<>>]

\* variant: decode(errors='ignore'), undecodable bytes are dropped
utf8_decode_ignore(b) ==
    [error |-> FALSE, text |-> SelectSeq(b, LAMBDA x : x < 128)]

utf8_decode(b) == DecodeFrom(b, 1, <<>>)

\* ------------------------------------------------ repository content used
\* "ABCDEFGHIJKLMNOPQRSTU": 21 distinct Base64 characters
HIGH == [k \in 1..21 |-> 64 + k]

\* "aaaaaaaaaaaaaaaa": long enough, entropy 0
LOW == [k \in 1..16 |-> 97]

\* "pwd=" HIGH " pwd:" HIGH
BYTES_SECRET == <<112, 119, 100, 61>> \o HIGH \o <<32, 112, 119, 100, 58>> \o HIGH

\* "hé " LOW, with a two-byte character
BYTES_PLAIN == <<104, 195, 169, 32>> \o LOW

\* 0xFF "pwd": not UTF-8
BYTES_BINARY == <<255, 112, 119, 100>>

\* "pwd"
BYTES_PWD == <<112, 119, 100>>

File(name, bytes, readable) == [name |-> name, bytes |-> bytes, readable |-> readable]

F_KEY_BIN == File(<<107, 101, 121, 46, 98, 105, 110>>, BYTES_BINARY, TRUE)
F_A_TXT == File(<<97, 46, 116, 120, 116>>, BYTES_SECRET, TRUE)
F_B_TXT == File(<<98, 46, 116, 120, 116>>, BYTES_PLAIN, TRUE)
F_KEY == File(<<107, 101, 121>>, BYTES_PWD, TRUE)
F_KEY_YML == File(<<107, 101, 121, 46, 121, 109, 108>>, BYTES_PWD, TRUE)
F_LOCK == File(<<107, 101, 121, 46, 108, 99, 107>>, BYTES_PWD, FALSE)

\* ".git", ".github", "src"
DIR_GIT == <<46, 103, 105, 116>>
DIR_GITHUB == <<46, 103, 105, 116, 104, 117, 98>>
DIR_SRC == <<115, 114, 99>>

Dir(dir, files) == [dir |-> dir, files |-> files]

\* What os.walk yields after a checkout, top-down; the clone's own .git
\* directory is part of every working copy.
SNAP_A ==
    [checkout_ok |-> TRUE,
     dirs |-> << Dir(<<>>, <<F_KEY_BIN, F_LOCK, F_B_TXT>>),
                 Dir(DIR_GIT, <<F_KEY>>),
                 Dir(DIR_GITHUB, <<F_KEY_YML>>),
                 Dir(DIR_SRC, <<F_A_TXT>>) >>]

\* git checkout raised GitCommandError
SNAP_FAILED == [checkout_ok |-> FALSE, dirs |-> <<>>]

SnapshotChoices == {SNAP_A, SNAP_FAILED}

Join(dir, name) == IF dir = <<>> THEN name ELSE dir \o <<47>> \o name

Entry(type, dir, f) ==
    [type |-> type, name |-> f.name, path |-> Join(dir, f.name),
     bytes |-> f.bytes, readable |-> f.readable]

E_SRC == [type |-> "tree", name |-> DIR_SRC, path |-> DIR_SRC,
          bytes |-> <<>>, readable |-> TRUE]

\* commit.tree.traverse() is lazy: with fail_at = k > 0 fetching the k-th
\* item raises GitCommandError, after k - 1 items were delivered.
TREE_FULL ==
    [entries |-> << Entry("blob", <<>>, F_KEY_BIN), E_SRC,
                    Entry("blob", DIR_SRC, F_A_TXT),
                    Entry("blob", DIR_GITHUB, F_KEY_YML) >>,
     fail_at |-> 0]

TREE_PLAIN ==
    [entries |-> << Entry("blob", <<>>, F_B_TXT), Entry("blob", <<>>, F_LOCK) >>,
     fail_at |-> 0]

TREE_FAIL_MID ==
    [entries |-> << Entry("blob", <<>>, F_A_TXT), Entry("blob", <<>>, F_KEY_YML) >>,
     fail_at |-> 2]

TreeChoices == {TREE_FULL, TREE_PLAIN, TREE_FAIL_MID}

\* remote refs as the components of ref.name
REF_HEAD == <<"origin", "HEAD">>
RemoteRefs ==
    << <<"origin", "main">>, <<"origin", "dev">>,
       <<"origin", "feature", "x">>, <<"origin", "rel">> >>

RefLists == {<<REF_HEAD>> \o SubSeq(RemoteRefs, 1, n) : n \in 1..MaxBranches}

\* optional arguments: None, or a value
NonePattern == [none |-> TRUE, compiled |-> FALSE, v |-> <<>>]
Pattern(v) == [none |-> FALSE, compiled |-> FALSE, v |-> v]
NoneInt == [none |-> TRUE, v |-> 0]
SomeInt(n) == [none |-> FALSE, v |-> n]

\* "key", "pwd", "(", ""
PAT_KEY == Pattern(<<107, 101, 121>>)
PAT_PWD == Pattern(<<112, 119, 100>>)
PAT_INVALID == Pattern(<<40>>)
PAT_EMPTY == Pattern(<<>>)

\* tempfile.mkdtemp(prefix='githuntr-'): "/tmp/githuntr-a"
MKDTEMP_DIR ==
    <<47, 116, 109, 112, 47, 103, 105, 116, 104, 117, 110, 116, 114, 45, 97>>

\* a caller-supplied temp_dir: "/w.git"
USER_DIR == <<47, 119, 46, 103, 105, 116>>

\* ------------------------------------------------------------------ state
VARIABLES
    temp_dir,        \* self.temp_dir
    dir_exists,      \* os.path.exists(self.temp_dir)
    max_commits,     \* self.max_commits
    filename_regex,  \* scan_repository's filename_regex (compiled in place)
    content_regex,   \* scan_repository's content_regex (compiled in place)
    do_entropy,      \* scan_repository's do_entropy
    search_history,  \* scan_repository's search_history flag
    branches,        \* self.branches
    results,         \* self.results: branches and commit_history
    pc,              \* position in scan_repository
    exc,             \* the exception that left scan_repository, or "none"
    i,               \* next element of self.branches
    all_commits,     \* list(self.repo.iter_commits('--all'))
    commits,         \* the list search_history iterates over
    j,               \* next element of commits
    snapshots,       \* the working copy each searched branch found
    trees,           \* the tree each searched commit had
    commit_results,  \* what search_commit returned for each searched commit
    reads            \* bag of the contents read so far

vars == << temp_dir, dir_exists, max_commits, filename_regex, content_regex,
           do_entropy, search_history, branches, results, pc, exc, i,
           all_commits, commits, j, snapshots, trees, commit_results, reads >>

args == << temp_dir, max_commits, do_entropy, search_history >>

\* ---------------------------------------------------------- the scanners
\* variant: only None counts as "no pattern"
Truthy_not_none(p) == ~p.none

\* truth value of a pattern argument: None and '' are false, a compiled
\* pattern object is true
Truthy(p) == ~p.none /\ (p.compiled \/ p.v # <<>>)

\* variant: a content already read is not read again
LogRead_cached(log, bytes) ==
    IF BagIn(bytes, log) THEN log ELSE log (+) SetToBag({bytes})

\* one call of f.read() / blob.data_stream.read() that delivered `bytes`
LogRead(log, bytes) == log (+) SetToBag({bytes})

EmptyResults == [filenames |-> <<>>, content |-> EmptyDict, entropy |-> EmptyDict]

\* the try block shared by search_branch and search_commit: read, decode,
\* content match, entropy scan; acc = [res, reads]
ScanContent(acc, path, f) ==
    IF ~f.readable THEN acc
    ELSE LET log == LogRead(acc.reads, f.bytes)
             d == utf8_decode(f.bytes)
         IN IF d.error THEN [acc EXCEPT !.reads = log]
            ELSE LET content == d.text
                     r1 == IF Truthy(content_regex) /\ re_search(content_regex.v, content)
                           THEN [acc.res EXCEPT !.content =
                                    DictSet(@, path, re_findall(content_regex.v, content))]
                           ELSE acc.res
                     secrets == scan_for_secrets(content)
                     r2 == IF do_entropy /\ secrets # <<>>
                           THEN [r1 EXCEPT !.entropy = DictSet(@, path, secrets)]
                           ELSE r1
                 IN [res |-> r2, reads |-> log]

MatchFilename(acc, path, name) ==
    IF Truthy(filename_regex) /\ re_search(filename_regex.v, name)
    THEN [acc EXCEPT !.res.filenames = Append(@, path)]
    ELSE acc

\* os.walk's root for a directory of the working copy
Root(dir) == IF dir = <<>> THEN temp_dir ELSE temp_dir \o <<47>> \o dir

os_path_join(root, file) == root \o <<47>> \o file

os_path_relpath(path, start) == SubSeq(path, Len(start) + 2, Len(path))

RECURSIVE WalkFiles(_, _, _, _)
WalkFiles(root, files, k, acc) ==
    IF k > Len(files) THEN acc
    ELSE LET file == files[k]
             file_path == os_path_join(root, file.name)
             rel_path == os_path_relpath(file_path, temp_dir)
         IN WalkFiles(root, files, k + 1,
                      ScanContent(MatchFilename(acc, rel_path, file.name), rel_path, file))

RECURSIVE WalkDirs(_, _, _)
WalkDirs(dirs, k, acc) ==
    IF k > Len(dirs) THEN acc
    ELSE LET root == Root(dirs[k].dir)
         IN IF Contains(root, DIR_GIT)
            THEN WalkDirs(dirs, k + 1, acc)
            ELSE WalkDirs(dirs, k + 1, WalkFiles(root, dirs[k].files, 1, acc))

Returned(acc) == [raised |-> FALSE, exc |-> "none", results |-> acc.res, reads |-> acc.reads]

Raised(e, log) == [raised |-> TRUE, exc |-> e, results |-> EmptyResults, reads |-> log]

\* variant: the checkout is not guarded
search_branch_unguarded(snap, log) ==
    IF ~snap.checkout_ok
    THEN Raised("GitCommandError:checkout", log)
    ELSE Returned(WalkDirs(snap.dirs, 1, [res |-> EmptyResults, reads |-> log]))

search_branch(snap, log) ==
    IF ~snap.checkout_ok
    THEN Returned([res |-> EmptyResults, reads |-> log])
    ELSE Returned(WalkDirs(snap.dirs, 1, [res |-> EmptyResults, reads |-> log]))

\* the for loop over commit.tree.traverse(); leaving it through the
\* GitCommandError handler keeps what commit_results holds at that point
RECURSIVE Traverse(_, _, _)
Traverse(tree, k, acc) ==
    IF k = tree.fail_at \/ k > Len(tree.entries) THEN acc
    ELSE LET blob == tree.entries[k]
         IN IF blob.type # "blob"
            THEN Traverse(tree, k + 1, acc)
            ELSE Traverse(tree, k + 1,
                          ScanContent(MatchFilename(acc, blob.path, blob.name),
                                      blob.path, blob))

search_commit(hexsha, tree, log) ==
    LET commit_results0 ==
            [filenames |-> <<>>, content |-> EmptyDict, entropy |-> EmptyDict,
             commit_info |-> [hash |-> hexsha]]
    IN Returned(Traverse(tree, 1, [res |-> commit_results0, reads |-> log]))

HasMatches(r) == r.filenames # <<>> \/ DOMAIN r.content # {} \/ DOMAIN r.entropy # {}

\* variant: every searched commit is added
record_commit_always(history, hexsha, r) == DictSet(history, hexsha, r)

\* "Only add commits that have matches"
record_commit(history, hexsha, r) ==
    IF HasMatches(r) THEN DictSet(history, hexsha, r) ELSE history

\* commits[:n] of a Python list
py_slice_to(s, n) ==
    IF n >= 0 THEN SubSeq(s, 1, IF n < Len(s) THEN n ELSE Len(s))
    ELSE SubSeq(s, 1, IF Len(s) + n > 0 THEN Len(s) + n ELSE 0)

\* if self.max_commits: commits = commits[:self.max_commits]
bound_commits(s, mc) ==
    IF ~mc.none /\ mc.v # 0 THEN py_slice_to(s, mc.v) ELSE s

\* variant: the cleanup runs on the normal return only
finally_cleanup_on_return(exists, outcome) ==
    IF outcome = "returned" THEN FALSE ELSE exists

\* finally: if os.path.exists(self.temp_dir): shutil.rmtree(self.temp_dir)
finally_cleanup(exists, outcome) == IF exists THEN FALSE ELSE exists

\* ------------------------------------------------------- scan_repository
\* GitHuntr(repo_url, temp_dir, max_commits) constructed, scan_repository
\* called with its four arguments
Init ==
    /\ temp_dir \in {MKDTEMP_DIR, USER_DIR}
    /\ dir_exists = (temp_dir = MKDTEMP_DIR)
    /\ max_commits \in {NoneInt} \cup {SomeInt(n) : n \in (-1)..MaxCommitsArg}
    /\ filename_regex \in {NonePattern, PAT_EMPTY, PAT_KEY, PAT_INVALID}
    /\ content_regex \in {NonePattern, PAT_PWD}
    /\ do_entropy \in BOOLEAN
    /\ search_history \in BOOLEAN
    /\ branches = <<>>
    /\ results = [branches |-> EmptyDict, commit_history |-> EmptyDict]
    /\ pc = "clone"
    /\ exc = "none"
    /\ i = 1
    /\ all_commits = <<>>
    /\ commits = <<>>
    /\ j = 1
    /\ snapshots = <<>>
    /\ trees = <<>>
    /\ commit_results = <<>>
    /\ reads = EmptyBag

\* control leaves scan_repository through the finally block
Leave(outcome, e, exists) ==
    /\ pc' = outcome
    /\ exc' = e
    /\ dir_exists' = finally_cleanup(exists, outcome)

\* ref.name.split('/')[-1] of every remote ref but HEAD
BranchNames(refs) ==
    LET names == [k \in 1..Len(refs) |-> refs[k][Len(refs[k])]]
    IN SelectSeq(names, LAMBDA n : n # "HEAD")

CloneFails ==
    /\ pc = "clone"
    /\ Leave("raised", "GitCommandError:clone", dir_exists)
    /\ UNCHANGED << args, filename_regex, content_regex, branches, results, i,
                    all_commits, commits, j, snapshots, trees, commit_results, reads >>

CloneRepo ==
    /\ pc = "clone"
    /\ \E refs \in RefLists : branches' = BranchNames(refs)
    /\ dir_exists' = TRUE
    /\ pc' = "compile"
    /\ UNCHANGED << args, filename_regex, content_regex, results, exc, i,
                    all_commits, commits, j, snapshots, trees, commit_results, reads >>

Compile(p) == IF Truthy(p) THEN [p EXCEPT !.compiled = TRUE] ELSE p

CompileFails(p) == Truthy(p) /\ re_compile_fails(p.v)

CompilePatterns ==
    /\ pc = "compile"
    /\ IF CompileFails(filename_regex) \/ CompileFails(content_regex)
       THEN /\ Leave("raised", "re.error", dir_exists)
            /\ UNCHANGED << filename_regex, content_regex >>
       ELSE /\ filename_regex' = Compile(filename_regex)
            /\ content_regex' = Compile(content_regex)
            /\ pc' = "branches"
            /\ UNCHANGED << exc, dir_exists >>
    /\ UNCHANGED << args, branches, results, i, all_commits, commits, j,
                    snapshots, trees, commit_results, reads >>

\* one iteration of "for branch in self.branches"
SearchBranch ==
    /\ pc = "branches"
    /\ i <= Len(branches)
    /\ \E snap \in SnapshotChoices :
         LET r == search_branch(snap, reads)
         IN IF r.raised
            THEN /\ Leave("raised", r.exc, dir_exists)
                 /\ UNCHANGED << results, i, snapshots, reads >>
            ELSE /\ results' = [results EXCEPT !.branches =
                                   DictSet(@, branches[i], r.results)]
                 /\ reads' = r.reads
                 /\ snapshots' = Append(snapshots, snap)
                 /\ i' = i + 1
                 /\ UNCHANGED << pc, exc, dir_exists >>
    /\ UNCHANGED << args, filename_regex, content_regex, branches,
                    all_commits, commits, j, trees, commit_results >>

\* the branch loop is exhausted: "if search_history", else "return"
BranchesDone ==
    /\ pc = "branches"
    /\ i > Len(branches)
    /\ IF search_history
       THEN pc' = "history" /\ UNCHANGED << exc, dir_exists >>
       ELSE Leave("returned", "none", dir_exists)
    /\ UNCHANGED << args, filename_regex, content_regex, branches, results, i,
                    all_commits, commits, j, snapshots, trees, commit_results, reads >>

\* commit k of the provider's most-recent-first order has hexsha k
IterCommitsFails ==
    /\ pc = "history"
    /\ Leave("raised", "GitCommandError:iter_commits", dir_exists)
    /\ UNCHANGED << args, filename_regex, content_regex, branches, results, i,
                    all_commits, commits, j, snapshots, trees, commit_results, reads >>

IterCommits ==
    /\ pc = "history"
    /\ \E n \in 0..MaxCommits :
         /\ all_commits' = [k \in 1..n |-> k]
         /\ commits' = bound_commits(all_commits', max_commits)
    /\ pc' = "commits"
    /\ UNCHANGED << args, dir_exists, filename_regex, content_regex, branches,
                    results, exc, i, j, snapshots, trees, commit_results, reads >>

\* one iteration of "for commit in commits"
SearchCommit ==
    /\ pc = "commits"
    /\ j <= Len(commits)
    /\ \E tree \in TreeChoices :
         LET r == search_commit(commits[j], tree, reads)
         IN /\ results' = [results EXCEPT !.commit_history =
                              record_commit(@, commits[j], r.results)]
            /\ reads' = r.reads
            /\ trees' = Append(trees, tree)
            /\ commit_results' = Append(commit_results, r.results)
            /\ j' = j + 1
    /\ UNCHANGED << args, dir_exists, filename_regex, content_regex, branches,
                    pc, exc, i, all_commits, commits, snapshots >>

HistoryDone ==
    /\ pc = "commits"
    /\ j > Len(commits)
    /\ Leave("returned", "none", dir_exists)
    /\ UNCHANGED << args, filename_regex, content_regex, branches, results, i,
                    all_commits, commits, j, snapshots, trees, commit_results, reads >>

\* KeyboardInterrupt while the branches or the history are scanned
Interrupt ==
    /\ pc \in {"branches", "commits"}
    /\ Leave("raised", "KeyboardInterrupt", dir_exists)
    /\ UNCHANGED << args, filename_regex, content_regex, branches, results, i,
                    all_commits, commits, j, snapshots, trees, commit_results, reads >>

Next ==
    \/ CloneFails
    \/ CloneRepo
    \/ CompilePatterns
    \/ SearchBranch
    \/ BranchesDone
    \/ IterCommitsFails
    \/ IterCommits
    \/ SearchCommit
    \/ HistoryDone
    \/ Interrupt

Spec == Init /\ [][Next]_vars

\* --------------------------------------------- what the units contained
Range(s) == {s[k] : k \in 1..Len(s)}

RECURSIVE SplitOn(_, _, _, _, _)
SplitOn(s, sep, k, cur, acc) ==
    IF k > Len(s) THEN Append(acc, cur)
    ELSE IF s[k] = sep THEN SplitOn(s, sep, k + 1, <<>>, Append(acc, cur))
    ELSE SplitOn(s, sep, k + 1, Append(cur, s[k]), acc)

\* the directory is, or lies under, a directory named exactly ".git"
UnderGitDir(dir) == DIR_GIT \in Range(SplitOn(dir, 47, 1, <<>>, <<>>))

Contents == {BYTES_SECRET, BYTES_PLAIN, BYTES_BINARY, BYTES_PWD}

\* every content decoded strictly, and the pieces its text splits into
Decoded == [b \in Contents |-> DecodeFrom(b, 1, <<>>)]

Tokens == [b \in Contents |-> re_split(Decoded[b].text)]

SecretTokens == [b \in Contents |-> {w \in Range(Tokens[b]) : IsSecret(w)}]

Undecodable(bytes) == Decoded[bytes].error

TextOf(bytes) == Decoded[bytes].text

PatternGiven(p) == ~p.none /\ p.v # <<>>

Views(r) == [filenames |-> r.filenames, content |-> r.content, entropy |-> r.entropy]

\* the files of a working copy: `walked` tells whether search_branch looks
\* into the file's directory, `pos` is the file's place in the walk
FilesOfSnap(snap) ==
    UNION { { [path |-> Join(snap.dirs[a].dir, snap.dirs[a].files[b].name),
               name |-> snap.dirs[a].files[b].name,
               bytes |-> snap.dirs[a].files[b].bytes,
               readable |-> snap.dirs[a].files[b].readable,
               under_git |-> UnderGitDir(snap.dirs[a].dir),
               walked |-> ~Contains(Root(snap.dirs[a].dir), DIR_GIT),
               pos |-> a * 100 + b]
              : b \in 1..Len(snap.dirs[a].files) }
            : a \in 1..Len(snap.dirs) }

\* the blobs of a commit tree: `walked` tells whether the traversal
\* delivered the blob
FilesOfTree(tree) ==
    { [path |-> tree.entries[k].path,
       name |-> tree.entries[k].name,
       bytes |-> tree.entries[k].bytes,
       readable |-> tree.entries[k].readable,
       under_git |-> FALSE,
       walked |-> tree.fail_at = 0 \/ k < tree.fail_at,
       pos |-> k]
      : k \in {m \in 1..Len(tree.entries) : tree.entries[m].type = "blob"} }

\* every branch searched so far, with its result
BranchUnits ==
    { [r |-> Views(results.branches[branches[k]]), files |-> FilesOfSnap(snapshots[k])]
      : k \in 1..Len(snapshots) }

\* every commit searched so far, with what search_commit returned
CommitUnits ==
    { [r |-> Views(commit_results[m]), files |-> FilesOfTree(trees[m])]
      : m \in 1..Len(trees) }

Units == BranchUnits \cup CommitUnits

InNoView(r, path) ==
    /\ path \notin Range(r.filenames)
    /\ path \notin DOMAIN r.content
    /\ path \notin DOMAIN r.entropy

\* number of file entries with content c that the scan visited and could read
Visits(c) ==
    LET inSnap == [k \in 1..Len(snapshots) |->
                     Cardinality({f \in FilesOfSnap(snapshots[k]) :
                                    f.walked /\ f.readable /\ f.bytes = c})]
        inTree == [m \in 1..Len(trees) |->
                     Cardinality({f \in FilesOfTree(trees[m]) :
                                    f.walked /\ f.readable /\ f.bytes = c})]
    IN SumOver(inSnap, DOMAIN inSnap) + SumOver(inTree, DOMAIN inTree)

\* ------------------------------------------------------------------ claims

\* C1 (as stated): within one scan run no content is read and scanned more
\* than once, however many branches and commits reference it.
C1_ReadAtMostOnce == \A c \in Contents : CopiesIn(c, reads) <= 1

\* C1 (amended): the bytes are read and scanned once per visited file entry,
\* so a content that two processed commits (or a branch and a commit)
\* reference is read once for each reference.
C1_ReadPerEntry == \A c \in Contents : CopiesIn(c, reads) = Visits(c)

C1_Witness ==
    /\ Len(trees) >= 2
    /\ \E f \in FilesOfTree(trees[1]) : f.walked /\ f.bytes = BYTES_SECRET
    /\ \E f \in FilesOfTree(trees[2]) : f.walked /\ f.bytes = BYTES_SECRET
    /\ CopiesIn(BYTES_SECRET, reads) >= 2

MinInt(a, b) == IF a < b THEN a ELSE b

\* C2 (as stated): with a bound supplied, search_history processes exactly
\* the first min(maxCommits, N) commits (none when that is not positive);
\* without a bound, all N.
C2_HistoryBound ==
    pc = "commits" =>
        IF max_commits.none THEN commits = all_commits
        ELSE LET n == MinInt(max_commits.v, Len(all_commits))
             IN commits = SubSeq(all_commits, 1, IF n > 0 THEN n ELSE 0)

\* C3 (as stated): a file whose bytes are not UTF-8 is in none of the three
\* views of its branch or commit result.
C3_UndecodableInNoView ==
    \A u \in Units : \A f \in u.files :
        Undecodable(f.bytes) => InNoView(u.r, f.path)

\* C3 (amended): a file whose bytes are not UTF-8 is in neither the content
\* nor the entropy view; it is in the filenames view exactly when it was
\* visited and the filename pattern matches its base name; the files after
\* it are still scanned.
C3_UndecodableSkipsContent ==
    \A u \in Units : \A f \in u.files :
        Undecodable(f.bytes) =>
            /\ f.path \notin DOMAIN u.r.content
            /\ f.path \notin DOMAIN u.r.entropy
            /\ f.path \in Range(u.r.filenames)
                 <=> /\ f.walked
                     /\ PatternGiven(filename_regex)
                     /\ Contains(f.name, filename_regex.v)
            /\ \A g \in u.files :
                 /\ g.pos > f.pos /\ g.walked /\ g.readable
                 /\ ~Undecodable(g.bytes)
                 /\ PatternGiven(content_regex)
                 /\ Contains(TextOf(g.bytes), content_regex.v)
                 => g.path \in DOMAIN u.r.content

C3_Witness ==
    \E u \in Units : \E f, g \in u.files :
        /\ Undecodable(f.bytes) /\ f.walked /\ f.readable
        /\ f.path \in Range(u.r.filenames)
        /\ g.pos > f.pos
        /\ g.path \in DOMAIN u.r.content

\* C4: whenever scan_repository has returned or raised, the temporary clone
\* directory no longer exists.
C4_DirReleased == pc \in {"returned", "raised"} => ~dir_exists

C4_Witness ==
    /\ pc = "raised"
    /\ exc = "KeyboardInterrupt"
    /\ Len(commit_results) >= 1
    /\ ~dir_exists

\* C5: commit_history has an entry for a hash exactly when that commit was
\* searched and its result is non-empty in some view; the entry is that result.
C5_OnlyMatchingCommits ==
    /\ \A m \in 1..Len(commit_results) :
         IF HasMatches(commit_results[m])
         THEN /\ commits[m] \in DOMAIN results.commit_history
              /\ results.commit_history[commits[m]] = commit_results[m]
         ELSE commits[m] \notin DOMAIN results.commit_history
    /\ \A h \in DOMAIN results.commit_history :
         \E m \in 1..Len(commit_results) : commits[m] = h

C5_Witness ==
    /\ pc = "returned"
    /\ \E m, n \in 1..Len(commit_results) :
         /\ HasMatches(commit_results[m])
         /\ commits[m] \in DOMAIN results.commit_history
         /\ trees[n].fail_at = 0
         /\ ~HasMatches(commit_results[n])
         /\ commits[n] \notin DOMAIN results.commit_history

\* C6: a failed checkout or an unreadable commit tree never ends the run:
\* no exception of a single branch or commit leaves scan_repository, and a
\* run that returns has a result for every branch and has searched every
\* commit within the bound.
C6_UnitFailureNotFatal ==
    /\ pc = "raised" =>
         exc \in {"GitCommandError:clone", "re.error",
                  "GitCommandError:iter_commits", "KeyboardInterrupt"}
    /\ pc \in {"history", "commits", "returned"} =>
         /\ Len(snapshots) = Len(branches)
         /\ Range(branches) = DOMAIN results.branches
    /\ (pc = "returned" /\ search_history) => Len(commit_results) = Len(commits)

C6_Witness ==
    /\ pc = "returned"
    /\ \E k \in 1..Len(snapshots) :
         ~snapshots[k].checkout_ok /\ k < Len(snapshots)
    /\ \E m \in 1..Len(trees) :
         trees[m].fail_at > 0 /\ m < Len(trees)

\* C7 (as stated): a branch whose checkout failed has an empty result, and a
\* commit whose tree traversal failed has no entry in commit_history.
C7_FailedUnitNoFinding ==
    /\ \A k \in 1..Len(snapshots) :
         ~snapshots[k].checkout_ok =>
             Views(results.branches[branches[k]]) = EmptyResults
    /\ \A m \in 1..Len(trees) :
         trees[m].fail_at > 0 => commits[m] \notin DOMAIN results.commit_history

\* C8 (as stated): search_branch never reads or matches a file under a
\* directory named exactly ".git", and checks every other file against the
\* filename pattern, the content pattern and the entropy scan.
C8_OnlyGitDirSkipped ==
    \A u \in BranchUnits : \A f \in u.files :
        IF f.under_git THEN InNoView(u.r, f.path)
        ELSE /\ (PatternGiven(filename_regex) /\ Contains(f.name, filename_regex.v))
                  => f.path \in Range(u.r.filenames)
             /\ (/\ f.readable /\ ~Undecodable(f.bytes)
                 /\ PatternGiven(content_regex)
                 /\ Contains(TextOf(f.bytes), content_regex.v))
                  => f.path \in DOMAIN u.r.content
             /\ (/\ f.readable /\ ~Undecodable(f.bytes) /\ do_entropy
                 /\ SecretTokens[f.bytes] # {})
                  => f.path \in DOMAIN u.r.entropy

\* C9 (as stated): no file's entropy finding lists a token twice.
C9_NoDuplicateSecrets ==
    \A u \in Units : \A path \in DOMAIN u.r.entropy :
        \A w \in Range(u.r.entropy[path]) : Count(w, u.r.entropy[path]) = 1

\* C9 (amended): a file's entropy finding lists a token once per occurrence:
\* a token that occurs n times in the file and passes the three tests
\* appears n times, and nothing else appears.
C9_OneEntryPerOccurrence ==
    \A u \in Units : \A path \in DOMAIN u.r.entropy :
        \E f \in u.files :
            /\ f.path = path
            /\ LET tokens == Tokens[f.bytes]
               IN /\ \A w \in Range(tokens) :
                       Count(w, u.r.entropy[path])
                           = IF w \in SecretTokens[f.bytes]
                             THEN Count(w, tokens) ELSE 0
                  /\ Range(u.r.entropy[path]) \subseteq Range(tokens)

C9_Witness ==
    \E u \in Units : \E path \in DOMAIN u.r.entropy :
        Count(HIGH, u.r.entropy[path]) = 2

\* C10: a path is in the filenames view only if a non-empty filename pattern
\* matches the file's base name, in the content view only if a non-empty
\* content pattern matches the decoded text, in the entropy view only if
\* entropy scanning is on and some token of the file is a secret candidate.
C10_ViewsOnlyOnMatch ==
    \A u \in Units :
        /\ \A path \in Range(u.r.filenames) :
             /\ PatternGiven(filename_regex)
             /\ \E f \in u.files :
                  f.path = path /\ Contains(f.name, filename_regex.v)
        /\ \A path \in DOMAIN u.r.content :
             /\ PatternGiven(content_regex)
             /\ \E f \in u.files :
                  /\ f.path = path /\ ~Undecodable(f.bytes)
                  /\ Contains(TextOf(f.bytes), content_regex.v)
        /\ \A path \in DOMAIN u.r.entropy :
             /\ do_entropy
             /\ \E f \in u.files :
                  /\ f.path = path /\ ~Undecodable(f.bytes)
                  /\ SecretTokens[f.bytes] # {}

C10_Witness ==
    /\ filename_regex = PAT_EMPTY
    /\ \E u \in Units :
         /\ u.r.filenames = <<>>
         /\ DOMAIN u.r.content # {}
         /\ DOMAIN u.r.entropy # {}
         /\ \E f \in u.files : f.walked /\ f.readable /\ InNoView(u.r, f.path)

====
